---- MODULE Spec2Model ----
(***************************************************************************)
(* buhtig-s8k: the reconciliation loop of cmd/main.go.  A scan lists the   *)
(* labelled namespaces and pushes each one through a pipeline of three     *)
(* channel stages (branch check, Helm release deletion, namespace          *)
(* deletion); every stage spawns one goroutine per received namespace and  *)
(* closes its output once its input is closed and its WaitGroup is zero.   *)
(* The Kubernetes API, Tiller and the GitHub API are the environment:      *)
(* their answers are chosen nondeterministically.                          *)
(***************************************************************************)
EXTENDS Naturals, Sequences, FiniteSets

VARIABLES
    store,       \* Kubernetes: namespace name -> record
    releases,    \* Tiller: release name -> status
    tillerHost,  \* helm.settings.TillerHost is set (the tunnel was created)
    start,       \* number of tokens in the buffered channel 'start'
    timers,      \* reschedule goroutines sleeping in time.After
    orch,        \* position of the scan loop: "select" or "ranging"
    gn,          \* position of the getNamespaces goroutine
    items,       \* nsList.Items of the current scan
    idx,         \* index of the next item of the range loop in getNamespaces
    closed,      \* closed[p]: the channel leaving pipeline position p is closed
    wg,          \* wg[p]: counter of the WaitGroup of pipeline position p
    pos,         \* pos[n]: pipeline position holding the worker of namespace n
    pc,          \* pc[n]: position of that worker in its function
    attempt,     \* attempt[n]: call number inside retry.RetryOnConflict
    log,         \* log[n]: calls made for n in the current scan, in order
    crashed      \* the process died of a panic no recover() catches

vars == <<store, releases, tillerHost, start, timers, orch, gn, items, idx,
          closed, wg, pos, pc, attempt, log, crashed>>

----------------------------------------------------------------------------
(* The universe of the model *)

Namespaces == {"ns1", "ns2"}

\* the order in which the API server lists namespaces
NsOrder == <<"ns1", "ns2">>

\* value of the helm-release annotation a namespace may carry
RelName == [n \in Namespaces |-> IF n = "ns1" THEN "relA" ELSE "relB"]

Releases == {"relA", "relB"} \cup Namespaces

NoAnnotation == "none"

\* shapes of the github-source-url annotation
URLs == {NoAnnotation, "malformed", "wellformed"}

Phases == {"Active", "Terminating"}

\* release.Status_Code values that matter, and "absent" for an unknown release
ReleaseStatuses == {"absent", "DEPLOYED", "DELETING", "DELETED"}

\* HTTP status codes the GitHub API answers with
Statuses == {"200", "404", "500"}

\* retry.DefaultRetry.Steps
RetrySteps == 5

\* The namespaces for which the environment may fail (API errors, conflicts,
\* Tiller failures, a deletion by somebody else); the others get the answers
\* of a healthy environment.
FaultProne == {"ns1"}

NoEvent == "-"

Event(op, arg, st, res, ret) ==
    [op |-> op, arg |-> arg, st |-> st, res |-> res, ret |-> ret]

----------------------------------------------------------------------------
(* Pure functions of the program *)

\* the composition of the stages in main: position -> stage
StagesSwapped == <<"branch", "namespace", "helm">>
Stages == <<"branch", "helm", "namespace">>

NumStages == Len(Stages)

\* first pc of the worker a stage spawns
StartPc(stage) ==
    CASE stage = "branch" -> "branch"
      [] stage = "helm" -> "helm"
      [] stage = "namespace" -> "nsget"

\* namespace.GithubSourceURL: the annotation, or an error when it is not set
GithubSourceURLDefaulted(n) ==
    IF store[n].url = NoAnnotation
    THEN [err |-> FALSE, url |-> "wellformed"]
    ELSE [err |-> FALSE, url |-> store[n].url]
GithubSourceURL(n) ==
    IF store[n].url = NoAnnotation
    THEN [err |-> TRUE, url |-> ""]
    ELSE [err |-> FALSE, url |-> store[n].url]

\* namespace.HelmRelease: the annotation, or an error when it is not set
HelmReleaseFromName(n) ==
    IF store[n].rel = NoAnnotation
    THEN [err |-> TRUE, name |-> ""]
    ELSE [err |-> FALSE, name |-> n]
HelmRelease(n) ==
    IF store[n].rel = NoAnnotation
    THEN [err |-> TRUE, name |-> ""]
    ELSE [err |-> FALSE, name |-> store[n].rel]

\* getBranchURLStatus: the regexp decides whether a lookup is made at all
URLMatches(url) == url = "wellformed"

\* filterWithDeletedBranches: "if status != 404 { return }"
BranchDeletedNot200(status) == status # "200"
BranchDeleted(status) == status = "404"

\* helm.DeleteRelease: "statusCode == DELETED || statusCode == DELETING"
SkipDeleteOnlyDeleted(code) == code = "DELETED"
SkipDeleteNever(code) == FALSE
SkipDelete(code) == code \in {"DELETED", "DELETING"}

\* helm.DeleteRelease: what it returns after each of its exits
\*   tunnelerr  portforwarder.New failed          -> return err
\*   pingerr    PingTiller failed                 -> return err
\*   notfound   ReleaseStatus failed, no release  -> return nil
\*   statuserr  ReleaseStatus failed otherwise    -> return nil
\*   skipped    status is DELETED or DELETING     -> return nil
\*   deleteerr  helmClient.DeleteRelease failed   -> return err
\*   deleted    helmClient.DeleteRelease worked   -> return nil
HelmExits ==
    {"tunnelerr", "pingerr", "notfound", "statuserr", "skipped", "deleteerr",
     "deleted"}
DeleteReleaseReturn(exit) ==
    IF exit \in {"tunnelerr", "pingerr", "deleteerr"} THEN "err" ELSE "nil"

\* retry.RetryOnConflict: what follows one call of the wrapped function
RetryOnConflictGivesUpEarly(err, att) ==
    CASE err = "nil" -> "return_nil"
      [] err = "conflict" /\ att + 1 < RetrySteps -> "again"
      [] OTHER -> "return_err"
RetryOnAnyError(err, att) ==
    CASE err = "nil" -> "return_nil"
      [] att < RetrySteps -> "again"
      [] OTHER -> "return_err"
RetryOnConflictOneMore(err, att) ==
    CASE err = "nil" -> "return_nil"
      [] err = "conflict" /\ att < RetrySteps + 1 -> "again"
      [] OTHER -> "return_err"
RetryOnConflict(err, att) ==
    CASE err = "nil" -> "return_nil"
      [] err = "conflict" /\ att < RetrySteps -> "again"
      [] OTHER -> "return_err"

\* filterHelmReleaseDeletedIfNeeded: "if retryErr != nil { return }"
HelmStageProceedsAlways(outcome) == TRUE
HelmStageProceeds(outcome) == outcome = "return_nil"

\* filterHelmReleaseDeletedIfNeeded: what the wrapped function returns when the
\* annotation is not set ("return nil // exit if there's no helm release")
NoReleaseReturnErr == "other"
NoReleaseReturn == "nil"

----------------------------------------------------------------------------
(* Initial states *)

\* Every namespace exists; a release is known to Tiller only when a labelled
\* namespace names it.  The namespaces outside FaultProne come in fewer shapes.
InitStore ==
    [Namespaces ->
        [exists : {TRUE}, labelled : BOOLEAN, phase : Phases, url : URLs,
         rel : {NoAnnotation, "relA", "relB"}]]

Init ==
    /\ store \in InitStore
    /\ \A n \in Namespaces :
          /\ store[n].rel \in {NoAnnotation, RelName[n]}
          /\ ~store[n].labelled => store[n].phase = "Active"
    /\ releases \in [Releases -> ReleaseStatuses]
    /\ \A r \in Releases :
          \/ releases[r] = "absent"
          \/ \E n \in Namespaces : store[n].rel = r /\ store[n].labelled
    /\ \A n \in Namespaces \ FaultProne :
          /\ store[n].phase = "Active"
          /\ store[n].url # "malformed"
          /\ ~store[n].labelled =>
                store[n].url = NoAnnotation /\ store[n].rel = NoAnnotation
          /\ store[n].rel # NoAnnotation => releases[store[n].rel] = "DEPLOYED"
    /\ tillerHost = FALSE
    /\ start = 1
    /\ timers = 0
    /\ orch = "select"
    /\ gn = "idle"
    /\ items = <<>>
    /\ idx = 1
    /\ closed = [p \in 0..NumStages |-> FALSE]
    /\ wg = [p \in 1..NumStages |-> 0]
    /\ pos = [n \in Namespaces |-> 0]
    /\ pc = [n \in Namespaces |-> "idle"]
    /\ attempt = [n \in Namespaces |-> 0]
    /\ log = [n \in Namespaces |-> <<>>]
    /\ crashed = FALSE

----------------------------------------------------------------------------
(* Helpers of the actions *)

Logged(n, es) == log' = [log EXCEPT ![n] = @ \o es]

\* the deferred wg.Done() of a worker that returns without sending
WorkerSendsAnyway(n) ==
    /\ pc' = [pc EXCEPT ![n] = "send"]
    /\ UNCHANGED <<wg, pos>>
WorkerReturns(n) ==
    /\ pc' = [pc EXCEPT ![n] = "aborted"]
    /\ wg' = [wg EXCEPT ![pos[n]] = @ - 1]
    /\ UNCHANGED pos

\* the worker reaches "out <- ns"
WorkerSends(n) ==
    /\ pc' = [pc EXCEPT ![n] = "send"]
    /\ UNCHANGED <<wg, pos>>

Running == ~crashed

----------------------------------------------------------------------------
(* main: the scan loop and the reschedule goroutine *)

\* "case <-start": a new iteration builds a fresh pipeline
StartIterationKeepsToken ==
    /\ Running
    /\ orch = "select"
    /\ start > 0
    /\ start' = start
    /\ orch' = "ranging"
    /\ gn' = "list"
    /\ items' = <<>>
    /\ idx' = 1
    /\ closed' = [p \in 0..NumStages |-> FALSE]
    /\ wg' = [p \in 1..NumStages |-> 0]
    /\ pos' = [n \in Namespaces |-> 0]
    /\ pc' = [n \in Namespaces |-> "idle"]
    /\ attempt' = [n \in Namespaces |-> 0]
    /\ log' = [n \in Namespaces |-> <<>>]
    /\ UNCHANGED <<store, releases, tillerHost, timers, crashed>>
StartIteration ==
    /\ Running
    /\ orch = "select"
    /\ start > 0
    /\ start' = start - 1
    /\ orch' = "ranging"
    /\ gn' = "list"
    /\ items' = <<>>
    /\ idx' = 1
    /\ closed' = [p \in 0..NumStages |-> FALSE]
    /\ wg' = [p \in 1..NumStages |-> 0]
    /\ pos' = [n \in Namespaces |-> 0]
    /\ pc' = [n \in Namespaces |-> "idle"]
    /\ attempt' = [n \in Namespaces |-> 0]
    /\ log' = [n \in Namespaces |-> <<>>]
    /\ UNCHANGED <<store, releases, tillerHost, timers, crashed>>

\* 'processed' is closed: "All namespaces completed, time to reschedule"
AllCompletedWithoutSleep ==
    /\ Running
    /\ orch = "ranging"
    /\ closed[NumStages]
    /\ orch' = "select"
    /\ start' = start + 1
    /\ UNCHANGED <<store, releases, tillerHost, timers, gn, items, idx, closed,
                   wg, pos, pc, attempt, log, crashed>>
AllCompletedWithoutRange ==
    /\ Running
    /\ orch = "ranging"
    /\ orch' = "select"
    /\ timers' = timers + 1
    /\ UNCHANGED <<store, releases, tillerHost, start, gn, items, idx, closed,
                   wg, pos, pc, attempt, log, crashed>>
AllCompleted ==
    /\ Running
    /\ orch = "ranging"
    /\ closed[NumStages]
    /\ orch' = "select"
    /\ timers' = timers + 1
    /\ UNCHANGED <<store, releases, tillerHost, start, gn, items, idx, closed,
                   wg, pos, pc, attempt, log, crashed>>

\* the sleeping goroutine wakes up and sends on 'start' (buffer of 1)
Reschedule ==
    /\ Running
    /\ timers > 0
    /\ start < 1
    /\ timers' = timers - 1
    /\ start' = start + 1
    /\ UNCHANGED <<store, releases, tillerHost, orch, gn, items, idx, closed,
                   wg, pos, pc, attempt, log, crashed>>

----------------------------------------------------------------------------
(* getNamespaces *)

\* the namespaces the label selector matches, in list order
RECURSIVE ListedWithoutSelector(_)
ListedWithoutSelector(i) ==
    IF i > Len(NsOrder) THEN <<>>
    ELSE LET n == NsOrder[i] IN
         IF store[n].exists
         THEN <<[name |-> n, phase |-> store[n].phase]>>
                 \o ListedWithoutSelector(i + 1)
         ELSE ListedWithoutSelector(i + 1)
RECURSIVE Listed(_)
Listed(i) ==
    IF i > Len(NsOrder) THEN <<>>
    ELSE LET n == NsOrder[i] IN
         IF store[n].exists /\ store[n].labelled
         THEN <<[name |-> n, phase |-> store[n].phase]>> \o Listed(i + 1)
         ELSE Listed(i + 1)

\* Namespaces().List succeeds
ListNamespacesAgain ==
    /\ Running
    /\ gn \in {"list", "range"}
    /\ items' = Listed(1)
    /\ idx' = 1
    /\ gn' = "range"
    /\ UNCHANGED <<store, releases, tillerHost, start, timers, orch, closed,
                   wg, pos, pc, attempt, log, crashed>>
ListNamespaces ==
    /\ Running
    /\ gn = "list"
    /\ items' = Listed(1)
    /\ idx' = 1
    /\ gn' = "range"
    /\ UNCHANGED <<store, releases, tillerHost, start, timers, orch, closed,
                   wg, pos, pc, attempt, log, crashed>>

\* Namespaces().List fails: the goroutine returns, the channel is closed empty
ListNamespacesFailsWithoutClose ==
    /\ Running
    /\ gn = "list"
    /\ gn' = "done"
    /\ UNCHANGED <<store, releases, tillerHost, start, timers, orch, items,
                   idx, closed, wg, pos, pc, attempt, log, crashed>>
ListNamespacesFails ==
    /\ Running
    /\ gn = "list"
    /\ gn' = "done"
    /\ closed' = [closed EXCEPT ![0] = TRUE]
    /\ UNCHANGED <<store, releases, tillerHost, start, timers, orch, items,
                   idx, wg, pos, pc, attempt, log, crashed>>

\* "if ns.Status.Phase != corev1.NamespaceTerminating"
AnyPhase(item) == TRUE
NotTerminating(item) == item.phase # "Terminating"

\* an item in phase Terminating is not sent
SkipTerminating ==
    /\ Running
    /\ gn = "range"
    /\ idx <= Len(items)
    /\ ~NotTerminating(items[idx])
    /\ idx' = idx + 1
    /\ UNCHANGED <<store, releases, tillerHost, start, timers, orch, gn, items,
                   closed, wg, pos, pc, attempt, log, crashed>>

\* "namespaces <- &coercedNs" meets "for ns := range namespaces" of the first
\* stage, which does wg.Add(1) and spawns the worker
SendNamespaceSharedVariable ==
    /\ Running
    /\ gn = "range"
    /\ idx <= Len(items)
    /\ NotTerminating(items[idx])
    /\ \E j \in idx..Len(items) :
          LET n == items[j].name IN
             /\ pos' = [pos EXCEPT ![n] = 1]
             /\ pc' = [pc EXCEPT ![n] = StartPc(Stages[1])]
             /\ wg' = [wg EXCEPT ![1] = @ + 1]
    /\ idx' = idx + 1
    /\ UNCHANGED <<store, releases, tillerHost, start, timers, orch, gn, items,
                   closed, attempt, log, crashed>>
SendNamespace ==
    /\ Running
    /\ gn = "range"
    /\ idx <= Len(items)
    /\ NotTerminating(items[idx])
    /\ LET n == items[idx].name IN
          /\ pos' = [pos EXCEPT ![n] = 1]
          /\ pc' = [pc EXCEPT ![n] = StartPc(Stages[1])]
          /\ wg' = [wg EXCEPT ![1] = @ + 1]
    /\ idx' = idx + 1
    /\ UNCHANGED <<store, releases, tillerHost, start, timers, orch, gn, items,
                   closed, attempt, log, crashed>>

\* the range loop is over: the deferred close(namespaces)
CloseNamespaces ==
    /\ Running
    /\ gn = "range"
    /\ idx > Len(items)
    /\ gn' = "done"
    /\ closed' = [closed EXCEPT ![0] = TRUE]
    /\ UNCHANGED <<store, releases, tillerHost, start, timers, orch, items,
                   idx, wg, pos, pc, attempt, log, crashed>>

----------------------------------------------------------------------------
(* The stage goroutines: hand-over between stages and closing *)

\* "out <- ns" of a worker at position p meets the range loop of position
\* p + 1 (wg.Add(1), go func) or, after the last stage, the range loop of main
\* ("Namespace completed"); the sender then runs its deferred wg.Done()
HandOver(n) ==
    /\ Running
    /\ pc[n] = "send"
    /\ LET p == pos[n] IN
       IF p = NumStages
       THEN /\ orch = "ranging"
            /\ pc' = [pc EXCEPT ![n] = "completed"]
            /\ wg' = [wg EXCEPT ![p] = @ - 1]
            /\ UNCHANGED <<pos, attempt>>
       ELSE /\ ~closed[p]
            /\ pos' = [pos EXCEPT ![n] = p + 1]
            /\ pc' = [pc EXCEPT ![n] = StartPc(Stages[p + 1])]
            /\ wg' = [wg EXCEPT ![p] = @ - 1, ![p + 1] = @ + 1]
            /\ attempt' = [attempt EXCEPT ![n] = 1]
    /\ UNCHANGED <<store, releases, tillerHost, start, timers, orch, gn, items,
                   idx, closed, log, crashed>>

\* the input of position p is closed and drained, wg.Wait() returns, and the
\* deferred close(out) runs
CloseStageBeforeInputClosed(p) ==
    /\ Running
    /\ closed[0]
    /\ ~closed[p]
    /\ wg[p] = 0
    /\ closed' = [closed EXCEPT ![p] = TRUE]
    /\ UNCHANGED <<store, releases, tillerHost, start, timers, orch, gn, items,
                   idx, wg, pos, pc, attempt, log, crashed>>
CloseStageWithoutWait(p) ==
    /\ Running
    /\ closed[p - 1]
    /\ ~closed[p]
    /\ closed' = [closed EXCEPT ![p] = TRUE]
    /\ UNCHANGED <<store, releases, tillerHost, start, timers, orch, gn, items,
                   idx, wg, pos, pc, attempt, log, crashed>>
CloseStage(p) ==
    /\ Running
    /\ closed[p - 1]
    /\ ~closed[p]
    /\ wg[p] = 0
    /\ closed' = [closed EXCEPT ![p] = TRUE]
    /\ UNCHANGED <<store, releases, tillerHost, start, timers, orch, gn, items,
                   idx, wg, pos, pc, attempt, log, crashed>>

----------------------------------------------------------------------------
(* filterWithDeletedBranches: the worker of one namespace *)

\* the annotation is not set: logger.Error(err); return
BranchNoAnnotation(n) ==
    /\ Running
    /\ pc[n] = "branch"
    /\ GithubSourceURL(n).err
    /\ Logged(n, <<Event("branchcheck", "", NoEvent, "noannotation", "abort")>>)
    /\ WorkerReturns(n)
    /\ UNCHANGED <<store, releases, tillerHost, start, timers, orch, gn, items,
                   idx, closed, attempt, crashed>>

\* getBranchURLStatus: the URL does not match the regexp, no request is made
BranchMalformed(n) ==
    /\ Running
    /\ pc[n] = "branch"
    /\ ~GithubSourceURL(n).err
    /\ ~URLMatches(GithubSourceURL(n).url)
    /\ Logged(n, <<Event("branchcheck", "", NoEvent, "nomatch", "abort")>>)
    /\ WorkerReturns(n)
    /\ UNCHANGED <<store, releases, tillerHost, start, timers, orch, gn, items,
                   idx, closed, attempt, crashed>>

\* httpClient.Get answers with a status code; only 404 is sent on
BranchLookupTriesAgain(n) ==
    /\ Running
    /\ pc[n] = "branch"
    /\ ~GithubSourceURL(n).err
    /\ URLMatches(GithubSourceURL(n).url)
    /\ Len(log[n]) < 2
    /\ \E status \in Statuses :
          IF BranchDeleted(status)
          THEN /\ Logged(n, <<Event("lookup", "", NoEvent, status, "proceed")>>)
               /\ WorkerSends(n)
          ELSE /\ Logged(n, <<Event("lookup", "", NoEvent, status, "abort")>>)
               /\ UNCHANGED <<pc, wg, pos>>
    /\ UNCHANGED <<store, releases, tillerHost, start, timers, orch, gn, items,
                   idx, closed, attempt, crashed>>
BranchLookup(n) ==
    /\ Running
    /\ pc[n] = "branch"
    /\ ~GithubSourceURL(n).err
    /\ URLMatches(GithubSourceURL(n).url)
    /\ \E status \in Statuses :
          IF BranchDeleted(status)
          THEN /\ Logged(n, <<Event("lookup", "", NoEvent, status, "proceed")>>)
               /\ WorkerSends(n)
          ELSE /\ Logged(n, <<Event("lookup", "", NoEvent, status, "abort")>>)
               /\ WorkerReturns(n)
    /\ UNCHANGED <<store, releases, tillerHost, start, timers, orch, gn, items,
                   idx, closed, attempt, crashed>>

\* httpClient.Get fails (a transport error): resp is nil and "defer resp.Body.Close()" dereferences
\* it before err is looked at; the panic is in a goroutine without recover()
BranchLookupFails(n) ==
    /\ Running
    /\ n \in FaultProne
    /\ pc[n] = "branch"
    /\ ~GithubSourceURL(n).err
    /\ URLMatches(GithubSourceURL(n).url)
    /\ Logged(n, <<Event("lookup", "", NoEvent, "neterr", "panic")>>)
    /\ crashed' = TRUE
    /\ UNCHANGED <<store, releases, tillerHost, start, timers, orch, gn, items,
                   idx, closed, wg, pos, pc, attempt>>

----------------------------------------------------------------------------
(* filterHelmReleaseDeletedIfNeeded: the worker of one namespace *)

\* the exits of helm.DeleteRelease the state of Tiller allows
HelmExitPossible(n, exit, name) ==
    CASE exit = "tunnelerr" -> n \in FaultProne /\ ~tillerHost
      [] exit = "pingerr" -> n \in FaultProne
      [] exit = "notfound" -> releases[name] = "absent"
      [] exit = "statuserr" -> n \in FaultProne /\ releases[name] # "absent"
      [] exit = "skipped" ->
            releases[name] # "absent" /\ SkipDelete(releases[name])
      [] exit = "deleteerr" ->
            /\ n \in FaultProne
            /\ releases[name] # "absent" /\ ~SkipDelete(releases[name])
      [] exit = "deleted" ->
            releases[name] # "absent" /\ ~SkipDelete(releases[name])

\* the end of the worker once RetryOnConflict has returned
HelmStageEnds(n, es, outcome) ==
    /\ Logged(n, es \o <<Event("helmstage", "", NoEvent, NoEvent, outcome)>>)
    /\ IF HelmStageProceeds(outcome) THEN WorkerSends(n) ELSE WorkerReturns(n)
    /\ UNCHANGED attempt

\* one call of the function wrapped in RetryOnConflict, annotation not set
HelmNoAnnotation(n) ==
    /\ Running
    /\ pc[n] = "helm"
    /\ HelmRelease(n).err
    /\ LET outcome == RetryOnConflict(NoReleaseReturn, attempt[n]) IN
          HelmStageEnds(n, <<Event("norelease", "", NoEvent, NoEvent,
                                   NoReleaseReturn)>>, outcome)
    /\ UNCHANGED <<store, releases, tillerHost, start, timers, orch, gn, items,
                   idx, closed, crashed>>

\* one call of the function wrapped in RetryOnConflict: helm.DeleteRelease
HelmDeleteRelease(n) ==
    /\ Running
    /\ pc[n] = "helm"
    /\ ~HelmRelease(n).err
    /\ LET name == HelmRelease(n).name IN
       \E exit \in HelmExits :
          /\ HelmExitPossible(n, exit, name)
          /\ tillerHost' = (tillerHost \/ exit # "tunnelerr")
          /\ releases' = IF exit = "deleted"
                         THEN [releases EXCEPT ![name] = "absent"]
                         ELSE releases
          /\ LET ret == DeleteReleaseReturn(exit)
                 err == IF ret = "nil" THEN "nil" ELSE "other"
                 call == Event("DeleteRelease", name, releases[name], exit, ret)
             IN HelmStageEnds(n, <<call>>, RetryOnConflict(err, attempt[n]))
    /\ UNCHANGED <<store, start, timers, orch, gn, items, idx, closed, crashed>>

----------------------------------------------------------------------------
(* filterNamespaceDeleted: the worker of one namespace *)

StoreState(n) == IF store[n].exists THEN store[n].phase ELSE "absent"

\* the end of the worker once RetryOnConflict has returned
NamespaceStageEndsAndSends(n, es, outcome) ==
    /\ Logged(n, es \o <<Event("nsstage", "", NoEvent, NoEvent, outcome)>>)
    /\ WorkerSends(n)
    /\ UNCHANGED attempt
NamespaceStageEnds(n, es, outcome) ==
    /\ Logged(n, es \o <<Event("nsstage", "", NoEvent, NoEvent, outcome)>>)
    /\ IF outcome = "return_nil" THEN WorkerSends(n) ELSE WorkerReturns(n)
    /\ UNCHANGED attempt

\* what Namespaces().Get can answer
GetAnswers(n) ==
    (IF store[n].exists THEN {store[n].phase} ELSE {"notfound"})
    \cup (IF store[n].exists /\ n \in FaultProne THEN {"error"} ELSE {})

\* Namespaces().Get inside the wrapped function: any error and the phase
\* Terminating return nil, otherwise the function goes on to Delete
NamespaceGet(n) ==
    /\ Running
    /\ pc[n] = "nsget"
    /\ \E res \in GetAnswers(n) :
          IF res = "Active"
          THEN /\ Logged(n, <<Event("ns.Get", n, StoreState(n), res, NoEvent)>>)
               /\ pc' = [pc EXCEPT ![n] = "nsdel"]
               /\ UNCHANGED <<wg, pos, attempt>>
          ELSE NamespaceStageEnds(n,
                   <<Event("ns.Get", n, StoreState(n), res, "nil")>>,
                   RetryOnConflict("nil", attempt[n]))
    /\ UNCHANGED <<store, releases, tillerHost, start, timers, orch, gn, items,
                   idx, closed, crashed>>

\* what Namespaces().Delete can answer
DeleteAnswers(n) ==
    {"ok"} \cup (IF n \in FaultProne THEN {"conflict", "error"} ELSE {})

\* Namespaces().Delete inside the wrapped function; a conflict is tried again
NamespaceDeleteCollection(n) ==
    /\ Running
    /\ pc[n] = "nsdel"
    /\ \E res \in DeleteAnswers(n) :
          LET err == IF res = "ok" THEN "nil"
                     ELSE IF res = "conflict" THEN "conflict" ELSE "other"
              call == Event("ns.Delete", n, StoreState(n), res,
                            IF res = "ok" THEN "nil" ELSE "err")
              outcome == RetryOnConflict(err, attempt[n])
          IN /\ store' = IF res = "ok" /\ store[n].exists
                         THEN [m \in Namespaces |->
                                 IF store[m].labelled
                                 THEN [store[m] EXCEPT !.phase = "Terminating"]
                                 ELSE store[m]]
                         ELSE store
             /\ IF outcome = "again"
                THEN /\ Logged(n, <<call>>)
                     /\ attempt' = [attempt EXCEPT ![n] = @ + 1]
                     /\ pc' = [pc EXCEPT ![n] = "nsget"]
                     /\ UNCHANGED <<wg, pos>>
                ELSE NamespaceStageEnds(n, <<call>>, outcome)
    /\ UNCHANGED <<releases, tillerHost, start, timers, orch, gn, items, idx,
                   closed, crashed>>
NamespaceDeleteWithoutRefetch(n) ==
    /\ Running
    /\ pc[n] = "nsdel"
    /\ \E res \in DeleteAnswers(n) :
          LET err == IF res = "ok" THEN "nil"
                     ELSE IF res = "conflict" THEN "conflict" ELSE "other"
              call == Event("ns.Delete", n, StoreState(n), res,
                            IF res = "ok" THEN "nil" ELSE "err")
              outcome == RetryOnConflict(err, attempt[n])
          IN /\ store' = IF res = "ok" /\ store[n].exists
                         THEN [store EXCEPT ![n].phase = "Terminating"]
                         ELSE store
             /\ IF outcome = "again"
                THEN /\ Logged(n, <<call>>)
                     /\ attempt' = [attempt EXCEPT ![n] = @ + 1]
                     /\ pc' = [pc EXCEPT ![n] = "nsdel"]
                     /\ UNCHANGED <<wg, pos>>
                ELSE NamespaceStageEnds(n, <<call>>, outcome)
    /\ UNCHANGED <<releases, tillerHost, start, timers, orch, gn, items, idx,
                   closed, crashed>>
NamespaceDelete(n) ==
    /\ Running
    /\ pc[n] = "nsdel"
    /\ \E res \in DeleteAnswers(n) :
          LET err == IF res = "ok" THEN "nil"
                     ELSE IF res = "conflict" THEN "conflict" ELSE "other"
              call == Event("ns.Delete", n, StoreState(n), res,
                            IF res = "ok" THEN "nil" ELSE "err")
              outcome == RetryOnConflict(err, attempt[n])
          IN /\ store' = IF res = "ok" /\ store[n].exists
                         THEN [store EXCEPT ![n].phase = "Terminating"]
                         ELSE store
             /\ IF outcome = "again"
                THEN /\ Logged(n, <<call>>)
                     /\ attempt' = [attempt EXCEPT ![n] = @ + 1]
                     /\ pc' = [pc EXCEPT ![n] = "nsget"]
                     /\ UNCHANGED <<wg, pos>>
                ELSE NamespaceStageEnds(n, <<call>>, outcome)
    /\ UNCHANGED <<releases, tillerHost, start, timers, orch, gn, items, idx,
                   closed, crashed>>

----------------------------------------------------------------------------
(* The environment *)

\* The store is read by List, Get and Delete only: a change of namespace n is
\* a step of the model when one of these is the next to look at n.
Observed(n) ==
    \/ gn = "list" /\ store[n].labelled
    \/ pc[n] \in {"nsget", "nsdel"}

\* somebody else deletes the namespace (kubectl delete namespace)
ExternalDelete(n) ==
    /\ n \in FaultProne
    /\ Observed(n)
    /\ store[n].exists
    /\ store[n].phase = "Active"
    /\ store' = [store EXCEPT ![n].phase = "Terminating"]
    /\ UNCHANGED <<releases, tillerHost, start, timers, orch, gn, items, idx,
                   closed, wg, pos, pc, attempt, log, crashed>>

\* the namespace controller finishes the deletion of a Terminating namespace
Finalize(n) ==
    /\ Observed(n)
    /\ store[n].exists
    /\ store[n].phase = "Terminating"
    /\ store' = [store EXCEPT ![n].exists = FALSE]
    /\ UNCHANGED <<releases, tillerHost, start, timers, orch, gn, items, idx,
                   closed, wg, pos, pc, attempt, log, crashed>>

----------------------------------------------------------------------------
(* The specification *)

Next ==
    \/ StartIteration
    \/ AllCompleted
    \/ Reschedule
    \/ ListNamespaces
    \/ ListNamespacesFails
    \/ SkipTerminating
    \/ SendNamespace
    \/ CloseNamespaces
    \/ \E p \in 1..NumStages : CloseStage(p)
    \/ \E n \in Namespaces :
          \/ HandOver(n)
          \/ BranchNoAnnotation(n)
          \/ BranchMalformed(n)
          \/ BranchLookup(n)
          \/ BranchLookupFails(n)
          \/ HelmNoAnnotation(n)
          \/ HelmDeleteRelease(n)
          \/ NamespaceGet(n)
          \/ NamespaceDelete(n)
          \/ ExternalDelete(n)
          \/ Finalize(n)

Spec == Init /\ [][Next]_vars

----------------------------------------------------------------------------
(* Reading the log of a namespace *)

Ops(n, S) == {i \in DOMAIN log[n] : log[n][i].op \in S}

Has(n, op, res) == \E i \in DOMAIN log[n] : log[n][i].op = op /\ log[n][i].res = res

BranchGone(n) == Has(n, "lookup", "404")

ReleaseCalls == {"DeleteRelease"}
NamespaceCalls == {"ns.Get", "ns.Delete"}

\* the worker of n returned inside the stage named
AbortedIn(n, stage) ==
    pc[n] = "aborted" /\ pos[n] \in 1..NumStages /\ Stages[pos[n]] = stage

----------------------------------------------------------------------------
(* C1: within a scan the calls made for one namespace come in the order of
   the stages: helm.DeleteRelease is called only after the branch lookup has
   answered, the release step ends only after that, and Namespaces().Get and
   Namespaces().Delete are called only after the release step has ended. *)
C1_StagesInOrder ==
    \A n \in Namespaces :
       /\ \A i \in Ops(n, ReleaseCalls \cup {"norelease", "helmstage"}) :
             \E j \in 1..(i - 1) : log[n][j].op = "lookup"
       /\ \A i \in Ops(n, NamespaceCalls) :
             \E j \in 1..(i - 1) : log[n][j].op = "helmstage"

\* the scenario of the specification: 404, release deleted, namespace deleted,
\* namespace completed
C1_Witness ==
    \E n \in Namespaces :
       /\ pc[n] = "completed"
       /\ \E i, j, k \in DOMAIN log[n] :
             /\ i < j /\ j < k
             /\ log[n][i].op = "lookup" /\ log[n][i].res = "404"
             /\ log[n][j].op = "DeleteRelease" /\ log[n][j].res = "deleted"
             /\ log[n][k].op = "ns.Delete" /\ log[n][k].res = "ok"

(* C2: a namespace whose branch lookup answered with a status other than 404
   (200 included) gets no helm.DeleteRelease, no Namespaces().Get and no
   Namespaces().Delete in that scan; its worker returned in the first stage. *)
C2_Non404Untouched ==
    \A n \in Namespaces :
       \A i \in DOMAIN log[n] :
          (log[n][i].op = "lookup" /\ log[n][i].res \in Statuses \ {"404"}) =>
             /\ Ops(n, ReleaseCalls \cup NamespaceCalls) = {}
             /\ AbortedIn(n, "branch")

C2_Witness ==
    \E n \in Namespaces :
       /\ Has(n, "lookup", "200")
       /\ pc[n] = "aborted"
       /\ closed[NumStages]

(* C3: a namespace without the github-source-url annotation never gets a
   branch lookup, a helm.DeleteRelease or a Namespaces().Get/Delete, whatever
   its helm-release annotation and phase; its worker ends in the branch
   stage. *)
C3_NoSourceURLNeverTerminated ==
    \A n \in Namespaces :
       store[n].url = NoAnnotation =>
          /\ Ops(n, {"lookup"} \cup ReleaseCalls \cup NamespaceCalls) = {}
          /\ pc[n] \in {"idle", "branch", "aborted"}
          /\ pc[n] = "aborted" => AbortedIn(n, "branch")

C3_Witness ==
    \E n \in Namespaces :
       /\ store[n].url = NoAnnotation
       /\ store[n].rel # NoAnnotation
       /\ Has(n, "branchcheck", "noannotation")
       /\ AbortedIn(n, "branch")

(* C4: for a namespace whose branch lookup answered 404, helm.DeleteRelease
   is called only with the name in the helm-release annotation, and once the
   release step has ended it has been called if and only if the annotation is
   set. *)
C4_ReleaseCalledIffAnnotated ==
    \A n \in Namespaces :
       BranchGone(n) =>
          /\ \A i \in Ops(n, ReleaseCalls) :
                /\ store[n].rel # NoAnnotation
                /\ log[n][i].arg = store[n].rel
          /\ Ops(n, {"helmstage"}) # {} =>
                (Ops(n, ReleaseCalls) # {} <=> store[n].rel # NoAnnotation)

C4_Witness ==
    \E n \in Namespaces :
       /\ BranchGone(n)
       /\ Ops(n, {"helmstage"}) # {}
       /\ \E i \in Ops(n, ReleaseCalls) : log[n][i].arg = RelName[n]

(* C5: when the release step of a namespace ends with an error, no
   Namespaces().Get and no Namespaces().Delete is called for it in that scan:
   its worker returned in the release stage. *)
C5_NoNamespaceCallAfterReleaseError ==
    \A n \in Namespaces :
       \A i \in Ops(n, {"helmstage"}) :
          log[n][i].ret = "return_err" =>
             /\ Ops(n, NamespaceCalls) = {}
             /\ AbortedIn(n, "helm")

C5_Witness ==
    \E n \in Namespaces :
       /\ \E i \in Ops(n, {"helmstage"}) : log[n][i].ret = "return_err"
       /\ Has(n, "DeleteRelease", "deleteerr")
       /\ closed[NumStages]

(* C6: a namespace whose branch lookup answered 404 and which has no
   helm-release annotation gets no helm.DeleteRelease; its release step ends
   without an error and its worker does not return in the release stage: it
   sends the namespace on to the namespace stage. *)
C6_NoAnnotationSkipsRelease ==
    \A n \in Namespaces :
       (BranchGone(n) /\ store[n].rel = NoAnnotation) =>
          /\ Ops(n, ReleaseCalls) = {}
          /\ \A i \in Ops(n, {"helmstage"}) : log[n][i].ret = "return_nil"
          /\ ~AbortedIn(n, "helm")
          /\ Ops(n, {"helmstage"}) # {} =>
                (pc[n] = "send" \/ Stages[pos[n]] = "namespace")

\* the scenario of the specification: no annotation, 404, the namespace is
\* fetched and deleted
C6_Witness ==
    \E n \in Namespaces :
       /\ BranchGone(n)
       /\ store[n].rel = NoAnnotation
       /\ Has(n, "ns.Get", "Active")
       /\ Has(n, "ns.Delete", "ok")
       /\ pc[n] = "completed"

(* C7: Namespaces().Delete is never called for a namespace that has a
   helm-release annotation while that release is still known to Tiller with
   a status other than DELETING or DELETED. *)
C7_NoReleaseOrphaned ==
    \A n \in Namespaces :
       (store[n].rel # NoAnnotation /\ Ops(n, {"ns.Delete"}) # {}) =>
          releases[store[n].rel] \in {"absent", "DELETING", "DELETED"}

(* C8: a call of helm.DeleteRelease for a release that is unknown to Tiller,
   or whose status is DELETED or DELETING, makes no delete call to Tiller,
   and it returns nil whenever it gets as far as the status lookup (the
   tunnel and the ping worked). *)
ConnectionErrors == {"tunnelerr", "pingerr"}

C8_GoneReleaseIsSuccess ==
    \A n \in Namespaces :
       \A i \in Ops(n, ReleaseCalls) :
          log[n][i].st \in {"absent", "DELETED", "DELETING"} =>
             /\ log[n][i].res \notin {"deleted", "deleteerr"}
             /\ log[n][i].res \notin ConnectionErrors => log[n][i].ret = "nil"
             /\ releases[log[n][i].arg] = log[n][i].st

C8_Witness ==
    \E n \in Namespaces :
       \E i, j \in Ops(n, ReleaseCalls \cup {"helmstage"}) :
          /\ j = i + 1
          /\ log[n][i].op = "DeleteRelease"
          /\ log[n][i].st = "DELETING"
          /\ log[n][i].res = "skipped"
          /\ log[n][i].ret = "nil"
          /\ log[n][j].ret = "return_nil"

(* C9: helm.DeleteRelease returns an error for every failure other than the
   release being unknown or already DELETING/DELETED: a failure of the
   tunnel, of the ping, of the status lookup or of the delete call is never
   answered with nil. *)
C9_FailuresAreReturned ==
    \A n \in Namespaces :
       \A i \in Ops(n, ReleaseCalls) :
          log[n][i].res \in {"tunnelerr", "pingerr", "statuserr", "deleteerr"}
             => log[n][i].ret = "err"

(* C10: inside one call of the function wrapped for the namespace stage,
   Namespaces().Delete is called only right after a Namespaces().Get that
   found the namespace, not Terminating; when the namespace is absent or
   Terminating the call returns nil without a Delete; otherwise a Delete is
   made and its outcome is what the call returns. *)
C10_NamespaceTerminator ==
    \A n \in Namespaces :
       /\ \A i \in Ops(n, {"ns.Delete"}) :
             /\ i > 1
             /\ log[n][i - 1].op = "ns.Get"
             /\ log[n][i - 1].res = "Active"
             /\ log[n][i].ret = (IF log[n][i].res = "ok" THEN "nil" ELSE "err")
       /\ \A i \in Ops(n, {"ns.Get"}) :
             IF log[n][i].st \in {"absent", "Terminating"}
             THEN log[n][i].ret = "nil"
             ELSE log[n][i].ret # "nil"

----------------------------------------------------------------------------
(* Two calls in a row: a release stage or a namespace stage that receives the
   same namespace again.  The workers are the ones of the pipeline; the
   channel a worker sends to has no reader here, so a worker that succeeds
   stays at its send. *)

\* how many times a stage is given the same namespace
MaxFeeds == 2

StageEnds == {"helmstage", "nsstage"}

\* the calls of RetryOnConflict that have returned for n
Fed(n) == Cardinality(Ops(n, StageEnds))

InitTwice ==
    /\ store \in InitStore
    /\ \A n \in Namespaces :
          /\ store[n].labelled
          /\ store[n].url = "wellformed"
          /\ store[n].rel \in {NoAnnotation, RelName[n]}
    /\ releases \in [Releases -> ReleaseStatuses]
    /\ \A r \in Releases :
          \/ releases[r] = "absent"
          \/ \E n \in Namespaces : store[n].rel = r
    /\ \A n \in Namespaces \ FaultProne :
          /\ store[n].phase = "Active"
          /\ store[n].rel # NoAnnotation
          /\ releases[store[n].rel] = "DEPLOYED"
    /\ tillerHost = FALSE
    /\ start = 0
    /\ timers = 0
    /\ orch = "select"
    /\ gn = "idle"
    /\ items = <<>>
    /\ idx = 1
    /\ closed = [p \in 0..NumStages |-> FALSE]
    /\ wg = [p \in 1..NumStages |-> 0]
    /\ pos = [n \in Namespaces |-> 0]
    /\ pc = [n \in Namespaces |-> "idle"]
    /\ attempt = [n \in Namespaces |-> 0]
    /\ log = [n \in Namespaces |-> <<>>]
    /\ crashed = FALSE

\* "for ns := range namespaces { wg.Add(1); go func(ns *namespace) {...}(ns) }"
\* of the stage at position p receives n, for the first time or once more
Feed(n, p) ==
    /\ Running
    /\ pc[n] \in {"idle", "send", "aborted"}
    /\ pos[n] \in {0, p}
    /\ Fed(n) < MaxFeeds
    /\ pos' = [pos EXCEPT ![n] = p]
    /\ pc' = [pc EXCEPT ![n] = StartPc(Stages[p])]
    /\ wg' = [wg EXCEPT ![p] = @ + 1]
    /\ attempt' = [attempt EXCEPT ![n] = 1]
    /\ UNCHANGED <<store, releases, tillerHost, start, timers, orch, gn, items,
                   idx, closed, log, crashed>>

NextTwice ==
    \E n \in Namespaces :
       \/ \E p \in 2..NumStages : Feed(n, p)
       \/ HelmNoAnnotation(n)
       \/ HelmDeleteRelease(n)
       \/ NamespaceGet(n)
       \/ NamespaceDelete(n)
       \/ ExternalDelete(n)
       \/ Finalize(n)

SpecTwice == InitTwice /\ [][NextTwice]_vars

(* C11: calling the namespace step or the release step again is harmless.
   Once a Namespaces().Get has met the namespace absent or Terminating, that
   call and every later one return nil and no Namespaces().Delete is made
   any more; once helm.DeleteRelease has met the release unknown, DELETED or
   DELETING, that call and every later one make no delete call to Tiller and
   return nil when they reach the status lookup; and over all the calls at
   most one Namespaces().Delete and at most one delete call to Tiller take
   effect. *)
C11_Idempotent ==
    \A n \in Namespaces :
       /\ \A i \in Ops(n, {"ns.Get"}) :
             log[n][i].st \in {"absent", "Terminating"} =>
                \A j \in i..Len(log[n]) :
                   /\ log[n][j].op # "ns.Delete"
                   /\ log[n][j].op = "ns.Get" => log[n][j].ret = "nil"
                   /\ log[n][j].op = "nsstage" => log[n][j].ret = "return_nil"
       /\ \A i \in Ops(n, ReleaseCalls) :
             log[n][i].st \in {"absent", "DELETED", "DELETING"} =>
                \A j \in i..Len(log[n]) :
                   log[n][j].op = "DeleteRelease" =>
                      /\ log[n][j].res \notin {"deleted", "deleteerr"}
                      /\ log[n][j].res \notin ConnectionErrors =>
                            log[n][j].ret = "nil"
       /\ Cardinality({i \in Ops(n, {"ns.Delete"}) : log[n][i].res = "ok"}) <= 1
       /\ Cardinality({i \in Ops(n, ReleaseCalls) :
                          log[n][i].res = "deleted"}) <= 1

\* one namespace deleted by the first call and left alone by the second, and
\* one release deleted by the first call and unknown to the second
C11_Witness ==
    \E n, m \in Namespaces :
       /\ Fed(n) = 2 /\ Fed(m) = 2
       /\ \E i, j \in Ops(n, NamespaceCalls) :
             /\ i < j
             /\ log[n][i].op = "ns.Delete" /\ log[n][i].res = "ok"
             /\ log[n][j].op = "ns.Get" /\ log[n][j].st = "Terminating"
             /\ log[n][j].ret = "nil"
       /\ \E i, j \in Ops(m, ReleaseCalls) :
             /\ i < j
             /\ log[m][i].res = "deleted"
             /\ log[m][j].res = "notfound" /\ log[m][j].ret = "nil"

----------------------------------------------------------------------------
(* retry.RetryOnConflict as the stages use it *)

Conflicts(n) == {i \in Ops(n, {"ns.Delete"}) : log[n][i].res = "conflict"}

\* the call that failed with something else than a conflict
OtherError(e) ==
    \/ e.op = "ns.Delete" /\ e.res = "error"
    \/ e.op = "DeleteRelease" /\ e.ret = "err"

(* C12: the wrapped function is called again after a conflict, at most
   RetrySteps (5) times in all.  Whatever the number of conflicts before it,
   a call that returns nil makes RetryOnConflict return nil and the worker
   sends the namespace on; RetryOnConflict returns an error after a conflict
   only when that was the conflict of the fifth call, and the worker then
   returns without sending. *)
C12_RetryOnConflictCeiling ==
    \A n \in Namespaces :
       /\ Cardinality(Ops(n, {"ns.Get"})) <= RetrySteps
       /\ \A i \in Conflicts(n) :
             IF Cardinality({j \in Conflicts(n) : j <= i}) < RetrySteps
             THEN IF i = Len(log[n])
                  THEN pc[n] = "nsget"
                  ELSE log[n][i + 1].op = "ns.Get"
             ELSE /\ i < Len(log[n])
                  /\ log[n][i + 1].op = "nsstage"
                  /\ log[n][i + 1].ret = "return_err"
                  /\ AbortedIn(n, "namespace")
       /\ \A i \in Ops(n, {"nsstage"}) :
             /\ i > 1
             /\ log[n][i - 1].ret = "nil" =>
                   /\ log[n][i].ret = "return_nil"
                   /\ pc[n] \in {"send", "completed"}
             /\ log[n][i - 1].res = "conflict" =>
                   Cardinality(Conflicts(n)) = RetrySteps

\* four conflicts, the fifth call succeeds, the namespace is completed
C12_Witness ==
    \E n \in Namespaces :
       /\ Cardinality(Conflicts(n)) = RetrySteps - 1
       /\ Has(n, "ns.Delete", "ok")
       /\ \E i \in Ops(n, {"nsstage"}) : log[n][i].ret = "return_nil"
       /\ pc[n] = "completed"

(* C13: an error that is no conflict ends RetryOnConflict at once: the call
   of helm.DeleteRelease or Namespaces().Delete that failed is the last call
   made for the namespace in the scan, RetryOnConflict returns the error
   right after it and the worker returns; helm.DeleteRelease, which never
   fails with a conflict, is called at most once. *)
C13_OtherErrorsNotRetried ==
    \A n \in Namespaces :
       /\ \A i \in DOMAIN log[n] :
             OtherError(log[n][i]) =>
                /\ i + 1 = Len(log[n])
                /\ log[n][i + 1].op \in StageEnds
                /\ log[n][i + 1].ret = "return_err"
                /\ pc[n] = "aborted"
       /\ Cardinality(Ops(n, ReleaseCalls)) <= 1

C13_Witness ==
    \E n \in Namespaces :
       /\ Has(n, "ns.Delete", "error")
       /\ Cardinality(Ops(n, {"ns.Get"})) = 1
       /\ AbortedIn(n, "namespace")
       /\ closed[NumStages]

----------------------------------------------------------------------------
(* The scan as a whole *)

\* the worker of n does not exist (any more)
Finished(n) == pc[n] \in {"idle", "aborted", "completed"}

\* nothing of a scan is running: getNamespaces has returned and so has
\* every worker of every stage
Drained ==
    /\ gn \in {"idle", "done"}
    /\ \A n \in Namespaces : Finished(n)
    /\ \A p \in 1..NumStages : wg[p] = 0

(* C14: when main has left "for ns := range processed" (it logs "All
   namespaces completed", starts the sleeping goroutine and is back at its
   select), getNamespaces and every worker of every stage of the scan have
   returned; a sleep is pending only in such a state. *)
C14_DrainingBarrier ==
    /\ orch = "select" => Drained
    /\ timers > 0 => orch = "select"

\* a finished scan in which one namespace was completed and one aborted
C14_Witness ==
    /\ orch = "select"
    /\ timers = 1
    /\ \E n, m \in Namespaces : pc[n] = "completed" /\ pc[m] = "aborted"

(* C15: scans do not overlap.  While getNamespaces or a worker of a scan is
   running, main is inside that scan's range loop and neither a token in
   'start' nor a sleeping goroutine exists that could start another scan; and
   a step that starts a discovery is taken only from a state in which the
   scan before it is drained. *)
C15_ScansNeverOverlap ==
    /\ [](~Drained => (orch = "ranging" /\ start = 0 /\ timers = 0))
    /\ [][(gn' = "list" /\ gn # "list") =>
            (Drained /\ (gn = "done" => closed[NumStages]))]_vars

\* a second scan has started: the scan before it deleted a namespace that
\* only the program deletes
C15_Witness ==
    /\ gn = "list"
    /\ \E n \in Namespaces \ FaultProne :
          store[n].exists /\ store[n].phase = "Terminating"

----------------------------------------------------------------------------
(* Faults *)

\* httpClient.Get failed for n
LookupFailed(n) == Has(n, "lookup", "neterr")

(* C16: a fault in the chain of one namespace does not stop the chain of
   another namespace of the same scan: there is no state in which the lookup
   of n has failed and the worker of another namespace m, dispatched in the
   same scan, is neither finished nor able to go on because the process is
   gone. *)
C16_RunIsolation ==
    \A n, m \in Namespaces :
       (n # m /\ LookupFailed(n) /\ ~Finished(m)) => Running

(* C18: the process does not end because of a failure inside a scan: no
   state is reached in which a panic has taken the process down. *)
C18_NeverExitsOnFailure == ~crashed

(* C19: a transport failure of the branch lookup ends the chain of that
   namespace only: the worker returns in the branch stage as after any other
   error, the process goes on, no helm.DeleteRelease and no
   Namespaces().Get/Delete is called for the namespace, and the lookup is
   made once. *)
C19_TransportFailureIsStageAbort ==
    \A n \in Namespaces :
       LookupFailed(n) =>
          /\ Running
          /\ AbortedIn(n, "branch")
          /\ Ops(n, ReleaseCalls \cup NamespaceCalls) = {}
          /\ Cardinality(Ops(n, {"lookup"})) = 1

----------------------------------------------------------------------------
(* The supervisor: the outer loop of main and the recover() of the goroutine
   that runs the scan loop.  A panic in that goroutine is an input here. *)

\* a panic inside an iteration of the scan loop: the deferred function
\* recovers it and sends the error to errReport; the goroutine is gone, the
\* goroutines of the pipeline it built stay
OrchestratorPanics ==
    /\ Running
    /\ orch = "ranging"
    /\ orch' = "recovered"
    /\ UNCHANGED <<store, releases, tillerHost, start, timers, gn, items, idx,
                   closed, wg, pos, pc, attempt, log, crashed>>

\* "err := <-errReport; log.Error(err)" and the next round of the outer loop:
\* a new goroutine runs the scan loop and waits in its select
SupervisorRestarts ==
    /\ Running
    /\ orch = "recovered"
    /\ orch' = "select"
    /\ UNCHANGED <<store, releases, tillerHost, start, timers, gn, items, idx,
                   closed, wg, pos, pc, attempt, log, crashed>>

NextSupervised ==
    \/ Next
    \/ OrchestratorPanics
    \/ SupervisorRestarts

\* every goroutine that can take a step is scheduled in the end
SpecSupervised ==
    Init /\ [][NextSupervised]_vars /\ WF_vars(NextSupervised)

(* C17: after a panic of the scan loop has been recovered, the restarted
   scan loop starts a new iteration (a new discovery) in the end, unless the
   process has died in the meantime. *)
C17_RestartRediscovers ==
    (orch = "recovered") ~> (orch = "ranging" \/ crashed)

----------------------------------------------------------------------------
(* Discovery *)

\* the positions of n in the list result
ItemsOf(n) == {i \in DOMAIN items : items[i].name = n}

(* C20: a namespace that the list result shows in phase Terminating is not
   dispatched: it gets no worker and no call (no branch lookup, no
   helm.DeleteRelease, no Namespaces().Get/Delete) in that scan; and every
   namespace that has a worker or a call in the scan carries the tracked
   label and is in the list result, already passed by the range loop, in a
   phase other than Terminating. *)
C20_TerminatingNotDispatched ==
    \A n \in Namespaces :
       /\ (\E i \in ItemsOf(n) : items[i].phase = "Terminating") =>
             pc[n] = "idle" /\ log[n] = <<>>
       /\ (pc[n] # "idle" \/ log[n] # <<>>) =>
             /\ store[n].labelled
             /\ \E i \in ItemsOf(n) :
                   i < idx /\ items[i].phase # "Terminating"

\* the range loop has passed a Terminating item and has dispatched another
\* namespace, whose branch lookup was made
C20_Witness ==
    \E n, m \in Namespaces :
       /\ \E i \in ItemsOf(n) : i < idx /\ items[i].phase = "Terminating"
       /\ pc[n] = "idle"
       /\ \E j \in ItemsOf(m) : j < idx /\ items[j].phase = "Active"
       /\ Ops(m, {"lookup"}) # {}

\* the place of n in the order of the API server
NsIndex(n) == CHOOSE k \in DOMAIN NsOrder : NsOrder[k] = n

\* the list result holds the labelled namespaces of the store, each once,
\* in the order of the API server
ListedExactly ==
    /\ \A n \in Namespaces :
          ItemsOf(n) # {} <=> (store[n].exists /\ store[n].labelled)
    /\ \A i, j \in DOMAIN items :
          i < j => NsIndex(items[i].name) < NsIndex(items[j].name)

(* C21: getNamespaces delivers the labelled namespaces of the store and
   nothing else.  The result of a successful List holds exactly the existing
   namespaces that carry the label, each once, in list order; the items are
   delivered in that order, every non-Terminating item once the range loop
   has passed it; a namespace that is not in the list result (an unlabelled
   one) is never delivered; and the channel is closed only when the loop is
   through, with nothing delivered when nothing is labelled. *)
C21_GetNamespacesExact ==
    /\ [][(gn = "list" /\ gn' = "range") => ListedExactly']_vars
    /\ [](\A i \in DOMAIN items :
             pc[items[i].name] # "idle" <=>
                (i < idx /\ NotTerminating(items[i])))
    /\ [](\A n \in Namespaces : ItemsOf(n) = {} => pc[n] = "idle")
    /\ [](closed[0] => (gn = "done" /\ idx > Len(items)))

\* one namespace with the label and one without: the first is delivered, the
\* second is not, and the channel is closed
C21_Witness ==
    /\ closed[0]
    /\ Len(items) = 1
    /\ \E n, m \in Namespaces :
          /\ items[1].name = n /\ pc[n] # "idle"
          /\ store[m].exists /\ ~store[m].labelled /\ pc[m] = "idle"

\* the namespaces a running worker of the stage at position p works on
WorkedOn(p) == {n \in Namespaces : pos[n] = p /\ ~Finished(n)}

\* the items getNamespaces has sent
Delivered == {i \in DOMAIN items : i < idx /\ NotTerminating(items[i])}

(* C22: every delivered candidate has one worker and every worker has its
   own candidate.  In every stage the number of running workers (the counter
   of the stage's WaitGroup) is the number of distinct namespaces being
   worked on in that stage, so no two running workers act on the same
   namespace; and the namespaces that have or had a worker are as many as
   the items delivered, so no delivered candidate is without a worker. *)
C22_ExclusiveOwnership ==
    /\ \A p \in 1..NumStages : wg[p] = Cardinality(WorkedOn(p))
    /\ Cardinality({n \in Namespaces : pc[n] # "idle"}) = Cardinality(Delivered)
    /\ \A i \in Delivered : pc[items[i].name] # "idle"

\* two workers of one scan running at the same time, in the same stage
C22_Witness ==
    \E p \in 1..NumStages :
       /\ wg[p] = 2
       /\ Cardinality(Delivered) = 2
       /\ \A n \in Namespaces : pc[n] \notin {"idle", "send"} /\ ~Finished(n)

\* the worker of n is in the release stage and is about to call
\* helm.DeleteRelease
InDeleteRelease(n) == pc[n] = "helm" /\ ~HelmRelease(n).err

(* C23: workers that run the release step at the same time share no
   variable that one of them writes: a call of helm.DeleteRelease made while
   another worker is in helm.DeleteRelease too leaves unchanged every
   package variable of helm that the other worker reads (the Tiller host in
   'settings'). *)
C23_NoSharedMutableState ==
    [][\A n, m \in Namespaces :
          (n # m /\ InDeleteRelease(n) /\ InDeleteRelease(m) /\ pc'[n] # "helm")
             => tillerHost' = tillerHost]_vars

----------------------------------------------------------------------------
(* getBranchURLStatus: the regular expression.  An annotation value is a
   sequence of tokens: the literal "https://github.com/", another scheme and
   host, the slash, and pieces of text without a slash. *)

GitHubPrefix == "https://github.com/"
OtherPrefix == "http://example.org/"
Slash == "/"

\* text without a slash: what [^/] matches
NameTokens == {"a", "b", "x", "tree", "blob"}

\* the last position of the run of [^/] tokens that starts at i (i - 1 when
\* there is none): what the greedy [^/]+ takes
RECURSIVE NameRun(_, _)
NameRun(url, i) ==
    IF i <= Len(url) /\ url[i] \in NameTokens THEN NameRun(url, i + 1) ELSE i - 1

At(url, i) == IF i \in DOMAIN url THEN url[i] ELSE "end"

\* "https://github.com/([^/]+)/([^/]+)/tree/([^/]+)" tried at position p:
\* the three groups, or <<>> when there is no match at p
MatchAt(url, p) ==
    LET o1 == p + 1
        o2 == NameRun(url, o1)
        r1 == o2 + 2
        r2 == NameRun(url, r1)
        b1 == r2 + 4
        b2 == NameRun(url, b1)
    IN IF /\ At(url, p) = GitHubPrefix
          /\ o2 >= o1 /\ At(url, o2 + 1) = Slash
          /\ r2 >= r1 /\ At(url, r2 + 1) = Slash
          /\ At(url, r2 + 2) = "tree" /\ At(url, r2 + 3) = Slash
          /\ b2 >= b1
       THEN <<SubSeq(url, o1, o2), SubSeq(url, r1, r2), SubSeq(url, b1, b2)>>
       ELSE <<>>

\* ghBranchURLRe.FindStringSubmatch(branchURL): the leftmost match, or <<>>
\* ("parts == nil")
FindStringSubmatch(url) ==
    LET hits == {p \in DOMAIN url : MatchAt(url, p) # <<>>}
    IN IF hits = {} THEN <<>>
       ELSE MatchAt(url, CHOOSE p \in hits : \A q \in hits : p <= q)

\* "https://api.github.com/repos/%s/%s/branches/%s"
APIURL(parts) == <<"api.github.com/repos", parts[1], parts[2], parts[3]>>

\* the annotation values tried
ParseInputs ==
    {prefix \o <<host>> \o owner \o <<Slash>> \o repo \o <<Slash, marker, Slash>>
        \o branch \o suffix :
        prefix \in {<<>>, <<"x">>},
        host \in {GitHubPrefix, OtherPrefix},
        owner \in {<<>>, <<"a">>, <<"tree">>},
        repo \in {<<"a">>, <<"b">>},
        marker \in {"tree", "blob"},
        branch \in {<<>>, <<"a">>, <<"a", "b">>, <<"a", Slash, "b">>},
        suffix \in {<<>>, <<Slash>>}}

\* two workers of filterWithDeletedBranches, each about to call
\* getBranchURLStatus with the annotation of its namespace
InitParse ==
    /\ store \in [Namespaces ->
                    [exists : {TRUE}, labelled : {TRUE}, phase : {"Active"},
                     url : ParseInputs, rel : {NoAnnotation}]]
    /\ \A n \in Namespaces \ FaultProne :
          store[n].url = <<GitHubPrefix, "a", Slash, "b", Slash, "tree", Slash, "a">>
    /\ releases = [r \in Releases |-> "absent"]
    /\ tillerHost = FALSE
    /\ start = 0
    /\ timers = 0
    /\ orch = "ranging"
    /\ gn = "done"
    /\ items = <<>>
    /\ idx = 1
    /\ closed = [p \in 0..NumStages |-> p = 0]
    /\ wg = [p \in 1..NumStages |-> IF p = 1 THEN Cardinality(Namespaces) ELSE 0]
    /\ pos = [n \in Namespaces |-> 1]
    /\ pc = [n \in Namespaces |-> "branch"]
    /\ attempt = [n \in Namespaces |-> 0]
    /\ log = [n \in Namespaces |-> <<>>]
    /\ crashed = FALSE

\* "if parts == nil || len(parts) < 4 { return 0, fmt.Errorf(...) }": the
\* worker logs the error and returns
ParseFails(n) ==
    /\ Running
    /\ pc[n] = "branch"
    /\ FindStringSubmatch(store[n].url) = <<>>
    /\ Logged(n, <<Event("branchcheck", "", NoEvent, "nomatch", "abort")>>)
    /\ WorkerReturns(n)
    /\ UNCHANGED <<store, releases, tillerHost, start, timers, orch, gn, items,
                   idx, closed, attempt, crashed>>

\* httpClient.Get(apiURL) for the parts found, answered with a status
ParseLookup(n) ==
    /\ Running
    /\ pc[n] = "branch"
    /\ FindStringSubmatch(store[n].url) # <<>>
    /\ LET apiURL == APIURL(FindStringSubmatch(store[n].url)) IN
       \E status \in Statuses :
          IF BranchDeleted(status)
          THEN /\ Logged(n, <<Event("lookup", apiURL, NoEvent, status, "proceed")>>)
               /\ WorkerSends(n)
          ELSE /\ Logged(n, <<Event("lookup", apiURL, NoEvent, status, "abort")>>)
               /\ WorkerReturns(n)
    /\ UNCHANGED <<store, releases, tillerHost, start, timers, orch, gn, items,
                   idx, closed, attempt, crashed>>

NextParse == \E n \in Namespaces : ParseFails(n) \/ ParseLookup(n)

SpecParse == InitParse /\ [][NextParse]_vars

\* longest OWNER, REPO or BRANCH of the shape below
MaxNameLen == 2

Names == {w \in UNION {[1..k -> NameTokens] : k \in 1..MaxNameLen} : TRUE}

\* exactly https://github.com/OWNER/REPO/tree/BRANCH
ExactShape(url, owner, repo, branch) ==
    url = <<GitHubPrefix>> \o owner \o <<Slash>> \o repo
             \o <<Slash, "tree", Slash>> \o branch

(* C24: an annotation value that is not exactly of the shape
   https://github.com/OWNER/REPO/tree/BRANCH gets no lookup and the worker
   returns in the branch stage; a value of that shape gets a lookup for
   exactly its OWNER, REPO and BRANCH. *)
C24_ParsesExactShape ==
    \A n \in Namespaces :
       log[n] # <<>> =>
          IF \E o, r, b \in Names : ExactShape(store[n].url, o, r, b)
          THEN \E o, r, b \in Names :
                  /\ ExactShape(store[n].url, o, r, b)
                  /\ log[n][1].op = "lookup"
                  /\ log[n][1].arg = APIURL(<<o, r, b>>)
          ELSE /\ log[n][1].op = "branchcheck"
               /\ AbortedIn(n, "branch")

----------------------------------------------------------------------------
(* The cadence of the scans *)

\* a step that starts a discovery: getNamespaces is called
DiscoveryStarts == gn # "list" /\ gn' = "list"

\* a step in which main leaves the range loop over 'processed'
DrainEnds == orch = "ranging" /\ orch' = "select"

(* C25: between two scans there is exactly one sleep.  The step that ends a
   drain starts one sleeping goroutine and leaves 'start' empty; a token
   gets into 'start' only by the end of a sleep; a discovery starts only by
   taking the token, with no sleep pending; and after a drain there is
   always exactly one of the two, a pending sleep or the token of a sleep
   that has ended.  So no discovery starts between the end of a drain and
   the end of the sleep that follows it. *)
C25_OneSleepBetweenScans ==
    /\ [][DrainEnds => (timers' = timers + 1 /\ start' = 0)]_vars
    /\ [][start' > start => timers' + 1 = timers]_vars
    /\ [][DiscoveryStarts => (start' + 1 = start /\ timers = 0)]_vars
    /\ []((orch = "select" /\ gn = "done") => start + timers = 1)

\* a scan has been drained, the sleep after it has ended and its token is in
\* 'start': the next discovery can begin
C25_Witness ==
    /\ orch = "select"
    /\ gn = "done"
    /\ timers = 0
    /\ start = 1
    /\ \E n \in Namespaces : Has(n, "lookup", "200")

----------------------------------------------------------------------------
(* Progress: every goroutine that can take a step is scheduled in the end,
   every call returns, and Namespaces().List does not fail for ever. *)
SpecLive == Spec /\ WF_vars(Next) /\ SF_vars(ListNamespaces)

\* n is a namespace a scan has to pick up
Candidate(n) ==
    store[n].exists /\ store[n].labelled /\ store[n].phase = "Active"

(* C26: a namespace whose chain ended without completing in a scan that is
   over (its worker returned after an error or after a status other than
   404) is evaluated again in a later scan, unless it has stopped being a
   labelled namespace that is not Terminating. *)
C26_AbortedIsReattempted ==
    \A n \in Namespaces :
       (pc[n] = "aborted" /\ orch = "select") ~> (pc[n] = "branch" \/ ~Candidate(n))

(* C27: every scan comes to its end: once an iteration has started, the
   output of the last stage is closed and main gets back to its select with
   the sleep started, whatever the workers of the scan meet. *)
C27_ScanCompletes ==
    (orch = "ranging") ~> (orch = "select" /\ closed[NumStages] /\ start + timers = 1)

----------------------------------------------------------------------------
(* The stages as filters *)

\* the stage at position p has received n
Received(p, n) == pos[n] >= p

\* the stage at position p has sent n on (the last stage: to main)
Passed(p, n) == pos[n] > p \/ (p = NumStages /\ pos[n] = p /\ pc[n] = "completed")

\* the decision of the stage at position p about n was to send it on
Holds(p, n) ==
    CASE Stages[p] = "branch" -> BranchGone(n)
      [] Stages[p] = "helm" ->
            \E i \in Ops(n, {"helmstage"}) : log[n][i].ret = "return_nil"
      [] Stages[p] = "namespace" ->
            \E i \in Ops(n, {"nsstage"}) : log[n][i].ret = "return_nil"

\* the call that made the worker of n return without sending
Refused(e) == e.ret \in {"abort", "return_err", "panic"}

(* C28: the namespaces that main receives from 'processed' ("Namespace
   completed") are those that passed the three stages: the branch lookup
   answered 404, the release step returned no error and the namespace step
   returned no error.  A namespace for which a stage decided otherwise is
   never received, and when the scan is over every namespace that passed the
   three stages has been received. *)
C28_CompletedPassedAllStages ==
    \A n \in Namespaces :
       /\ pc[n] = "completed" =>
             /\ \A p \in 1..NumStages : Holds(p, n)
             /\ \A i \in DOMAIN log[n] : ~Refused(log[n][i])
       /\ (\E i \in DOMAIN log[n] : Refused(log[n][i])) => pc[n] # "completed"
       /\ (orch = "select" /\ \A p \in 1..NumStages : Holds(p, n)) =>
             pc[n] = "completed"

\* a scan that is over: one namespace passed the three stages and was
\* received by main, another was stopped in the release stage
C28_Witness ==
    /\ orch = "select"
    /\ \E n, m \in Namespaces :
          /\ pc[n] = "completed" /\ Has(n, "ns.Delete", "ok")
          /\ AbortedIn(m, "helm")

(* C29: every stage is a filter.  It sends on only namespaces it has
   received and about which its decision was to send; and it closes its
   output only after its input was closed, when no worker of it is left:
   from then on the namespaces it has sent on are exactly the received ones
   for which its decision was to send. *)
C29_StageIsFilter ==
    \A p \in 1..NumStages :
       /\ \A n \in Namespaces : Passed(p, n) => (Received(p, n) /\ Holds(p, n))
       /\ closed[p] =>
             /\ closed[p - 1]
             /\ wg[p] = 0
             /\ \A n \in Namespaces :
                   Received(p, n) => (Passed(p, n) <=> Holds(p, n))

\* the first stage has closed its output after sending one namespace on and
\* holding another back
C29_Witness ==
    /\ closed[1]
    /\ \E n, m \in Namespaces :
          /\ Passed(1, n) /\ Holds(1, n)
          /\ Received(1, m) /\ ~Passed(1, m) /\ Has(m, "lookup", "500")

----------------------------------------------------------------------------
(* The store changes while a scan is under way *)

\* somebody labels a namespace after Namespaces().List has returned
\* (kubectl label namespace)
ExternalLabel(n) ==
    /\ orch = "ranging"
    /\ gn \in {"range", "done"}
    /\ store[n].exists
    /\ ~store[n].labelled
    /\ store' = [store EXCEPT ![n].labelled = TRUE]
    /\ UNCHANGED <<releases, tillerHost, start, timers, orch, gn, items, idx,
                   closed, wg, pos, pc, attempt, log, crashed>>

\* somebody creates a namespace with the label after Namespaces().List has
\* returned, under a name that is free and that the list result does not hold
\* (the store and the workers know a namespace by its name)
ExternalCreate(n) ==
    /\ orch = "ranging"
    /\ gn \in {"range", "done"}
    /\ ItemsOf(n) = {}
    /\ ~store[n].exists
    /\ store' = [store EXCEPT ![n].exists = TRUE, ![n].labelled = TRUE,
                              ![n].phase = "Active"]
    /\ UNCHANGED <<releases, tillerHost, start, timers, orch, gn, items, idx,
                   closed, wg, pos, pc, attempt, log, crashed>>

NextOpen ==
    \/ Next
    \/ \E n \in Namespaces : ExternalLabel(n)
    \/ \E n \in Namespaces : ExternalCreate(n)

SpecOpen == Init /\ [][NextOpen]_vars

\* n matches the selector now but is not in the list result of the scan
Late(n) ==
    /\ gn \in {"range", "done"}
    /\ store[n].exists /\ store[n].labelled
    /\ ItemsOf(n) = {}

(* C30: the candidates of a scan are fixed when Namespaces().List returns.
   A scan lists once: the list result is set by the one List call of the
   iteration and does not change until the next iteration starts, and
   getNamespaces does not go back to listing.  A namespace that is labelled
   or created after the List call has no worker and no call in that scan. *)
C30_CandidatesFixedAtDiscovery ==
    /\ [][items' # items =>
             \/ gn = "list" /\ gn' = "range"
             \/ DiscoveryStarts]_vars
    /\ [][gn' = "list" /\ gn # "list" => DiscoveryStarts]_vars
    /\ [](\A n \in Namespaces :
             Late(n) => (pc[n] = "idle" /\ pos[n] = 0 /\ log[n] = <<>>))

\* a namespace was labelled after the List call; the scan is over, it has
\* handled the other namespace and left the late one alone
C30_Witness ==
    /\ closed[NumStages]
    /\ \E n, m \in Namespaces :
          /\ Late(n) /\ pc[n] = "idle"
          /\ pc[m] = "completed"

----------------------------------------------------------------------------
(* No second try within a scan *)

(* C31: nothing is tried again within a scan.  A namespace gets at most one
   branch lookup per scan; the decision of a stage not to send the namespace
   on (a status other than 404, an error, RetryOnConflict returning an error)
   is the last thing recorded for the namespace in the scan: its worker has
   returned, and no call and no decision is added for it until the next
   iteration starts. *)
C31_NoRetryWithinScan ==
    /\ [](\A n \in Namespaces :
             /\ Cardinality(Ops(n, {"lookup", "branchcheck"})) <= 1
             /\ \A i \in DOMAIN log[n] :
                   Refused(log[n][i]) =>
                      /\ i = Len(log[n])
                      /\ pc[n] = "aborted" \/ crashed
             /\ pc[n] = "aborted" =>
                   log[n] # <<>> /\ Refused(log[n][Len(log[n])]))
    /\ [][\A n \in Namespaces :
             (pc[n] = "aborted" /\ (log'[n] # log[n] \/ pc'[n] # pc[n])) =>
                (DiscoveryStarts /\ log'[n] = <<>> /\ pc'[n] = "idle")]_vars

\* the lookup of one namespace answered 500; the scan went on and is over,
\* with nothing more recorded for that namespace
C31_Witness ==
    /\ orch = "select"
    /\ \E n, m \in Namespaces :
          /\ Has(n, "lookup", "500") /\ Len(log[n]) = 1 /\ AbortedIn(n, "branch")
          /\ pc[m] = "completed"

----------------------------------------------------------------------------
(* The fetch before the delete *)

\* Namespaces().Get did not show an Active namespace
NotActive(e) == e.op = "ns.Get" /\ e.res \in {"notfound", "Terminating", "error"}

(* C32: every call of Namespaces().Delete comes right after a call of
   Namespaces().Get made in the same call of the wrapped function, which
   showed the namespace Active; after a conflict the next call of the wrapped
   function starts with a new Get; and once a Get has shown the namespace
   gone or Terminating, no Delete is called for it any more in the scan. *)
C32_FetchBeforeDelete ==
    \A n \in Namespaces :
       /\ \A i \in Ops(n, {"ns.Delete"}) :
             /\ i > 1
             /\ log[n][i - 1].op = "ns.Get"
             /\ log[n][i - 1].res = "Active"
       /\ pc[n] = "nsdel" =>
             /\ log[n] # <<>>
             /\ log[n][Len(log[n])].op = "ns.Get"
             /\ log[n][Len(log[n])].res = "Active"
       /\ \A i \in Conflicts(n) :
             i < Len(log[n]) => log[n][i + 1].op \in {"ns.Get", "nsstage"}
       /\ \A i \in DOMAIN log[n] :
             NotActive(log[n][i]) =>
                \A j \in Ops(n, {"ns.Delete"}) : j < i

\* a Delete met a conflict, somebody else deleted the namespace meanwhile,
\* the new Get showed it Terminating and no second Delete was called
C32_Witness ==
    \E n \in Namespaces :
       /\ Cardinality(Conflicts(n)) = 1
       /\ Cardinality(Ops(n, {"ns.Delete"})) = 1
       /\ Has(n, "ns.Get", "Terminating")
       /\ pc[n] = "completed"

----------------------------------------------------------------------------
(* The number of calls a stage makes for one namespace *)

\* the calls of the function wrapped by the release stage
WrappedReleaseCalls == ReleaseCalls \cup {"norelease"}

(* C33: within a scan the function wrapped in RetryOnConflict is called at
   most RetrySteps (5) times for one namespace in each stage: at most five
   calls of Namespaces().Get, at most five of Namespaces().Delete and at most
   five of helm.DeleteRelease, also when every call meets a conflict. *)
C33_RetryIsBounded ==
    \A n \in Namespaces :
       /\ attempt[n] <= RetrySteps
       /\ Cardinality(Ops(n, {"ns.Delete"})) <= RetrySteps
       /\ Cardinality(Ops(n, {"ns.Get"})) <= RetrySteps
       /\ Cardinality(Ops(n, WrappedReleaseCalls)) <= RetrySteps

\* every one of the five calls met a conflict; the worker gave up
C33_Witness ==
    \E n \in Namespaces :
       /\ Cardinality(Ops(n, {"ns.Delete"})) = RetrySteps
       /\ Conflicts(n) = Ops(n, {"ns.Delete"})
       /\ Cardinality(Ops(n, ReleaseCalls)) = 1
       /\ AbortedIn(n, "namespace")

----------------------------------------------------------------------------
(* The channels of the pipeline *)

\* the channel the worker of n is about to send on: the output of its stage
SendsOn(n) == pos[n]

(* C34: the channels are used in order.  No worker is ever at "out <- ns"
   with the output of its stage closed; while the output of a stage is closed
   the stage has no worker and its WaitGroup counter is zero; the output of a
   stage is closed in a step taken with the input closed, the counter at zero
   and no worker of the stage left; and a channel once closed stays closed
   until the next iteration makes new channels, so it is closed once. *)
C34_ChannelDiscipline ==
    /\ [](\A n \in Namespaces : pc[n] = "send" => ~closed[SendsOn(n)])
    /\ [](\A p \in 1..NumStages :
             closed[p] => (wg[p] = 0 /\ WorkedOn(p) = {}))
    /\ [][\A p \in 1..NumStages :
             (~closed[p] /\ closed'[p]) =>
                /\ closed[p - 1]
                /\ wg[p] = 0
                /\ WorkedOn(p) = {}
                /\ \A n \in Namespaces : pc[n] = "send" => SendsOn(n) # p - 1]_vars
    /\ [][\A p \in 0..NumStages :
             (closed[p] /\ ~closed'[p]) => DiscoveryStarts]_vars

\* the first stage has closed its output after one of its workers returned
\* without sending; the worker it sent a namespace to is still running
C34_Witness ==
    /\ closed[1] /\ ~closed[2]
    /\ \E n, m \in Namespaces :
          /\ AbortedIn(n, "branch")
          /\ pos[m] = 2 /\ pc[m] = "helm"

----------------------------------------------------------------------------
(* The token in 'start' *)

\* make(chan struct{}, 1)
StartCapacity == 1

(* C35: there is one trigger at a time.  'start' never holds more than its
   one value, no two sleeping goroutines exist, and a sleeping goroutine
   exists only while 'start' is empty, so that its send finds room: every
   send on 'start' is a step from the empty channel.  While a scan is under
   way, or its goroutine has panicked, there is neither a token nor a sleep
   that could trigger a second one. *)
C35_SingleStartToken ==
    /\ [](start <= StartCapacity /\ timers <= 1 /\ start + timers <= 1)
    /\ [](orch # "select" => (start = 0 /\ timers = 0))
    /\ [][start' > start => (start = 0 /\ start' = StartCapacity)]_vars

\* a scan is over and its sleep is pending while 'start' is empty
C35_Witness ==
    /\ orch = "select"
    /\ closed[NumStages]
    /\ timers = 1
    /\ start = 0

----------------------------------------------------------------------------
(* A scan whose listing failed *)

\* getNamespaces has returned without a list result to range over
EmptyRun == gn = "done" /\ items = <<>>

\* a step in which getNamespaces returns right after the List call
ListingGivesNothing == gn = "list" /\ gn' = "done"

(* C36: a listing that fails makes an empty scan.  getNamespaces closes its
   channel without having sent anything and changes nothing else; in such a
   scan no namespace gets a worker or a call and the store and Tiller stay as
   they are; the scan comes to its end, with the sleep started; and the next
   listing is made, by a new iteration that took the token of that sleep. *)
C36_ListFailureIsEmptyRun ==
    /\ [][ListingGivesNothing =>
             /\ closed'[0] /\ items' = <<>>
             /\ UNCHANGED <<store, releases, orch, start, timers, wg, pos, pc,
                            log, crashed>>]_vars
    /\ [](EmptyRun =>
             /\ \A n \in Namespaces :
                   pc[n] = "idle" /\ pos[n] = 0 /\ log[n] = <<>>
             /\ \A p \in 1..NumStages : wg[p] = 0)
    /\ [][(EmptyRun /\ EmptyRun') => UNCHANGED <<store, releases>>]_vars
    /\ [][(EmptyRun /\ DiscoveryStarts) =>
             (orch = "select" /\ timers = 0 /\ start = 1 /\ start' = 0)]_vars
    /\ (EmptyRun /\ orch = "ranging") ~> (EmptyRun /\ orch = "select" /\ timers = 1)
    /\ (EmptyRun /\ orch = "select") ~> (gn = "list")

\* the listing failed although the store holds a candidate; the scan is over,
\* nothing was done for the candidate and the sleep is pending
C36_Witness ==
    /\ EmptyRun
    /\ orch = "select"
    /\ timers = 1
    /\ \E n \in Namespaces : Candidate(n) /\ pc[n] = "idle"

----------------------------------------------------------------------------
(* What a deletion touches *)

\* a step in which Namespaces().Delete is called for n
DeleteCalled(n) ==
    \E i \in DOMAIN log'[n] :
       i > Len(log[n]) /\ log'[n][i].op = "ns.Delete"

\* a step in which that call is accepted by the store
DeleteAccepted(n) ==
    \E i \in DOMAIN log'[n] :
       i > Len(log[n]) /\ log'[n][i].op = "ns.Delete" /\ log'[n][i].res = "ok"

\* a step of a worker: it adds to the record of a namespace
WorkerStep == \E n \in Namespaces : Len(log'[n]) > Len(log[n])

(* C37: the program deletes only what it has listed, and only that.  A
   namespace for which Namespaces().Delete was called in a scan is in the
   list result of that scan, as a labelled namespace that was not
   Terminating.  A call of Delete for a namespace leaves every other
   namespace of the store as it was, and of the namespace itself it changes
   nothing but the phase; and no step of a worker changes a namespace of the
   store other than an accepted Delete for that very namespace. *)
C37_DeletionConfined ==
    /\ [](\A n \in Namespaces :
             Ops(n, {"ns.Delete"}) # {} =>
                \E i \in ItemsOf(n) : i < idx /\ NotTerminating(items[i]))
    /\ [][\A n \in Namespaces :
             DeleteCalled(n) =>
                /\ \A m \in Namespaces \ {n} : store'[m] = store[m]
                /\ store'[n] \in {store[n],
                                  [store[n] EXCEPT !.phase = "Terminating"]}]_vars
    /\ [][\A m \in Namespaces :
             (WorkerStep /\ store'[m] # store[m]) => DeleteAccepted(m)]_vars

\* one namespace was deleted by its worker; another labelled namespace, whose
\* branch is alive, and a namespace labelled after the listing are as before
C37_Witness ==
    \E n, m \in Namespaces :
       /\ Has(n, "ns.Delete", "ok")
       /\ store[n].exists /\ store[n].phase = "Terminating"
       /\ Candidate(m)
       /\ Late(m) \/ Has(m, "lookup", "200")

----------------------------------------------------------------------------
(* What "completed" says about the store *)

\* the call after which the namespace step returned without error found the
\* namespace gone or Terminating, or had its deletion accepted
Settled(e) ==
    \/ e.op = "ns.Get" /\ e.res \in {"notfound", "Terminating"}
    \/ e.op = "ns.Delete" /\ e.res = "ok"

(* C38: a namespace whose namespace step returned without error, and which
   main then receives as completed, was not an Active namespace of the store
   when the step returned: the last call of the step either found it absent
   or Terminating, or was a Delete that the store accepted. *)
C38_CompletedIsNotActive ==
    \A n \in Namespaces :
       \A i \in Ops(n, {"nsstage"}) :
          log[n][i].ret = "return_nil" =>
             /\ i > 1
             /\ Settled(log[n][i - 1])
             /\ log[n][i - 1].op = "ns.Get" => log[n][i - 1].st # "Active"

====
